---------------------------- MODULE Spec2Model ----------------------------
(***************************************************************************)
(* Model of progress1.py, a Streamlit script that builds a random          *)
(* undirected graph from two sidebar numbers and shows its degree table,   *)
(* adjacency matrix and summary metrics.                                   *)
(*                                                                         *)
(* Two specifications are given.                                           *)
(*   Spec     the Streamlit session: every widget interaction reruns the   *)
(*            whole script with the widgets' current values.               *)
(*   SpecGen  create_random_graph applied once to arguments drawn from a   *)
(*            bounded set that also holds values the sidebar never passes  *)
(*            (n <= 0, n > 200, m < 0, m above the number of pairs).       *)
(*                                                                         *)
(* The graph library's Graph object is modelled by what the script uses of *)
(* it: the insertion-ordered node list and the symmetric adjacency map.    *)
(* random.sample is a nondeterministic choice among the results it can     *)
(* return: the generator's state is seeded from the operating system and   *)
(* is never set by the script.                                             *)
(***************************************************************************)
EXTENDS Integers, Sequences, FiniteSets, TLC

VARIABLES
    num_vertices,     \* line 46: the "Number of vertices" widget / argument n
    num_edges,        \* line 48: the "Number of edges" widget / argument m
    show_labels,      \* line 50
    color_by_degree,  \* line 51
    chosen_edges,     \* line 65: the sample drawn by the last call
    G,                \* line 69: the graph built by the last call
    outcome           \* "pending" | "returned" | "ValueError"

vars == <<num_vertices, num_edges, show_labels, color_by_degree,
          chosen_edges, G, outcome>>

---------------------------------------------------------------------------
(* Bounds of the model *)

\* largest vertex count explored
MaxN == 4
\* how far below zero the arguments of SpecGen go
MaxNeg == 1
\* how far above the number of pairs the requested edge count of SpecGen goes
MaxOver == 2

(* Program constants *)

MinVertices == 1
MaxVertices == 200
DefaultVertices == 6
DefaultEdges == 6

Min(a, b) == IF a < b THEN a ELSE b
Max(a, b) == IF a > b THEN a ELSE b

\* range(n): empty when n <= 0
Range(n) == 0 .. (n - 1)

---------------------------------------------------------------------------
(* The graph object *)

\* the least pair of a set of pairs, in tuple order
FirstPair(E) ==
    CHOOSE e \in E : \A f \in E : e[1] < f[1] \/ (e[1] = f[1] /\ e[2] <= f[2])

\* nx.Graph(): no nodes, no adjacency
nx_Graph == [nodes |-> << >>, adj |-> << >>]

\* Graph.add_node: a node already present is left alone
add_node(g, v) ==
    IF v \in DOMAIN g.adj
    THEN g
    ELSE [nodes |-> Append(g.nodes, v), adj |-> (g.adj @@ (v :> {}))]

\* add_nodes_from left out: nodes come only with their edges
add_nodes_from_skipped(g, n) == g

\* G.add_nodes_from(range(n)): the nodes of 0 .. n-1 not yet present are
\* added in increasing order, each with no neighbour
add_nodes_from(g, n) ==
    LET fresh == SelectSeq([i \in 1 .. Max(n, 0) |-> i - 1],
                           LAMBDA v : v \notin DOMAIN g.adj)
    IN  [nodes |-> g.nodes \o fresh,
         adj   |-> (g.adj @@ [v \in Range(n) \ DOMAIN g.adj |-> {}])]

\* add_edge entering the second endpoint at the first only
add_edge_one_way(g, u, v) ==
    LET h == add_node(add_node(g, u), v)
    IN  [nodes |-> h.nodes,
         adj   |-> [w \in DOMAIN h.adj |->
                       IF w = u THEN h.adj[w] \cup {v} ELSE h.adj[w]]]

\* Graph.add_edge: both endpoints are added when absent, and each is entered
\* in the other's neighbour set
add_edge(g, u, v) ==
    LET h == add_node(add_node(g, u), v)
    IN  [nodes |-> h.nodes,
         adj   |-> [w \in DOMAIN h.adj |->
                       IF w = u /\ w = v THEN h.adj[w] \cup {u}
                       ELSE IF w = u THEN h.adj[w] \cup {v}
                       ELSE IF w = v THEN h.adj[w] \cup {u}
                       ELSE h.adj[w]]]

RECURSIVE add_edges_from(_, _)
add_edges_from(g, E) ==
    IF E = {} THEN g
    ELSE LET e == FirstPair(E)
         IN  add_edges_from(add_edge(g, e[1], e[2]), E \ {e})

\* G.edges(): each unordered pair {u, v} with v a neighbour of u, once
EdgeSet(g) == UNION {{{u, v} : v \in g.adj[u]} : u \in DOMAIN g.adj}

---------------------------------------------------------------------------
(* create_random_graph *)

\* line 62: every pair (i, j) with i < j < n
possible_edges(n) == {e \in Range(n) \X Range(n) : e[1] < e[2]}

\* line 47: num_vertices * (num_vertices - 1) // 2
max_possible_edges(n) == (n * (n - 1)) \div 2

\* random.sample raises ValueError for a negative sample size and for one
\* larger than the population
sample_raises(population, k) == k < 0 \/ k > Cardinality(population)

\* k draws with replacement: a pair may be drawn again
draw_with_replacement(population, k) ==
    IF k <= 0 THEN {{}}
    ELSE {S \in SUBSET population : S # {} /\ Cardinality(S) <= k}

\* k draws without replacement: each draw takes one element not drawn yet
RECURSIVE draw(_, _)
draw(population, k) ==
    IF k <= 0 THEN {{}}
    ELSE UNION {{S \cup {x} : x \in population \ S} : S \in draw(population, k - 1)}

\* the first k pairs of the list instead of a sample
RECURSIVE first_k(_, _)
first_k(population, k) ==
    IF k <= 0 \/ population = {} THEN {}
    ELSE LET e == FirstPair(population)
         IN  {e} \cup first_k(population \ {e}, k - 1)

random_sample_first_k(population, k) ==
    IF sample_raises(population, k) THEN {} ELSE {first_k(population, k)}

\* random.sample(population, k): the selections it can return
random_sample(population, k) ==
    IF sample_raises(population, k) THEN {} ELSE draw(population, k)

\* line 64 left out
clamp_missing(n, m) == m

\* line 64: m = min(m, len(possible_edges))
clamp(n, m) == Min(m, Cardinality(possible_edges(n)))

\* lines 60-61 and 66: the graph built from a drawn sample
build_graph(n, chosen) == add_edges_from(add_nodes_from(nx_Graph, n), chosen)

\* a range check on n added in front of the sampling
create_raises_range_checked(n, m) ==
    \/ n < MinVertices
    \/ n > MaxVertices
    \/ sample_raises(possible_edges(n), clamp(n, m))

\* lines 59-67: whether the call raises
create_raises(n, m) == sample_raises(possible_edges(n), clamp(n, m))

\* lines 59-67: what the call can return, the drawn sample kept beside the graph
create_returns(n, m) ==
    {[chosen |-> c, graph |-> build_graph(n, c)] :
        c \in random_sample(possible_edges(n), clamp(n, m))}

\* create_returns, computed once for the arguments the sidebar can pass
Tabulated ==
    [n \in MinVertices .. MaxN |->
        [m \in 0 .. max_possible_edges(n) |-> create_returns(n, m)]]

create_random_graph(n, m) ==
    IF n \in MinVertices .. MaxN /\ m \in 0 .. max_possible_edges(n)
    THEN Tabulated[n][m]
    ELSE create_returns(n, m)

---------------------------------------------------------------------------
(* Derived views *)

\* each edge counted at its lower endpoint only
degrees_upward(g) ==
    [v \in DOMAIN g.adj |-> Cardinality({w \in g.adj[v] : w > v})]

\* dict(G.degree()): the neighbour count, a self-loop counting twice
degrees(g) ==
    [v \in DOMAIN g.adj |->
        Cardinality(g.adj[v]) + (IF v \in g.adj[v] THEN 1 ELSE 0)]

\* sum(s[lo .. hi]) of a sequence of numbers
RECURSIVE SumSeq(_, _, _)
SumSeq(s, lo, hi) ==
    IF lo > hi THEN 0
    ELSE IF lo = hi THEN s[lo]
    ELSE LET mid == (lo + hi) \div 2
         IN  SumSeq(s, lo, mid) + SumSeq(s, mid + 1, hi)

\* list(dict(G.degree()).values()): the degrees in node-list order
degree_values(g) == [i \in 1 .. Len(g.nodes) |-> degrees(g)[g.nodes[i]]]

\* str(v) for v >= 0: the decimal digits, most significant first
RECURSIVE Digits(_)
Digits(v) == IF v < 10 THEN <<v>> ELSE Append(Digits(v \div 10), v % 10)

\* f"V{v}": the letter is the same in every label and is left out
Label(v) == Digits(v)

\* string comparison of two labels
RECURSIVE StrLess(_, _)
StrLess(a, b) ==
    IF a = << >> THEN b # << >>
    ELSE IF b = << >> THEN FALSE
    ELSE IF Head(a) # Head(b) THEN Head(a) < Head(b)
    ELSE StrLess(Tail(a), Tail(b))

\* lines 123-126: one row per key of the degree dict, sorted by the label
degree_df(g) ==
    SortSeq([i \in 1 .. Len(g.nodes) |->
                [Node |-> Label(g.nodes[i]), Degree |-> degrees(g)[g.nodes[i]]]],
            LAMBDA r, t : StrLess(r.Node, t.Node))

\* nx.to_numpy_array(G, dtype=int): rows and columns in node-list order
to_numpy_array(g) ==
    [i \in Range(Len(g.nodes)) |->
        [j \in Range(Len(g.nodes)) |->
            IF g.nodes[j + 1] \in g.adj[g.nodes[i + 1]] THEN 1 ELSE 0]]

\* line 132: the matrix with V0 .. V(num_vertices-1) as row and column labels
adj_df(g, n) ==
    [index   |-> [i \in Range(n) |-> Label(i)],
     columns |-> [i \in Range(n) |-> Label(i)],
     values  |-> to_numpy_array(g)]

\* len(G.edges()): half the degree sum
number_of_edges(g) == SumSeq(degree_values(g), 1, Len(g.nodes)) \div 2

\* the nodes reached from a source by following neighbours
RECURSIVE bfs(_, _, _)
bfs(g, seen, frontier) ==
    IF frontier = {} THEN seen
    ELSE LET next == (UNION {g.adj[v] : v \in frontier}) \ (seen \cup frontier)
         IN  bfs(g, seen \cup frontier, next)

\* a traversal that stops at the direct neighbours
plain_bfs_one_step(g, source) == {source} \cup g.adj[source]

plain_bfs(g, source) == bfs(g, {}, {source})

\* nx.number_connected_components(G): one traversal per node not seen yet
number_connected_components(g) ==
    Cardinality({plain_bfs(g, v) : v \in DOMAIN g.adj})

\* truncation to two decimals instead of rounding
round2_truncating(num, den) == (100 * num) \div den

\* round(x, 2) of x = num / den >= 0, in hundredths.  An exact half goes to
\* the even neighbour; no vertex count within the bounds produces one.
round2(num, den) ==
    LET q == (100 * num) \div den
        r == (100 * num) % den
    IN  IF 2 * r < den THEN q
        ELSE IF 2 * r > den THEN q + 1
        ELSE IF q % 2 = 0 THEN q ELSE q + 1

\* line 146
metric_nodes(g) == Len(g.nodes)
\* line 147
metric_edges(g) == number_of_edges(g)
\* line 148: the mean of the degree values, rounded, in hundredths
metric_avg_degree(g) ==
    IF Len(g.nodes) > 0
    THEN round2(SumSeq(degree_values(g), 1, Len(g.nodes)), Len(g.nodes))
    ELSE 0
\* line 149
metric_components(g) ==
    IF Len(g.nodes) > 0 THEN number_connected_components(g) ELSE 0

---------------------------------------------------------------------------
(* The script *)

\* line 69: G = create_random_graph(n, m)
call_create(n, m) ==
    IF create_raises(n, m)
    THEN /\ outcome' = "ValueError"
         /\ chosen_edges' = {}
         /\ G' = nx_Graph
    ELSE \E r \in create_random_graph(n, m) :
            /\ outcome' = "returned"
            /\ chosen_edges' = r.chosen
            /\ G' = r.graph

\* one run of the script with the widgets holding the given values
run_script(nv, ne, sl, cbd) ==
    /\ num_vertices' = nv
    /\ num_edges' = ne
    /\ show_labels' = sl
    /\ color_by_degree' = cbd
    /\ call_create(nv, ne)

\* the default of the edge widget without the min
default_edges_unclamped(n) == DefaultEdges

\* line 48: the default of the edge widget
default_edges(n) == Min(DefaultEdges, max_possible_edges(n))

\* line 46: the vertex widget accepts min_value .. max_value.  The edge
\* widget has no key, and its max_value and value change with the vertex
\* count, so it is a new widget and starts again from its default.
ChangeVertices ==
    \E v \in MinVertices .. Min(MaxVertices, MaxN) :
        /\ v # num_vertices
        /\ run_script(v, default_edges(v), show_labels, color_by_degree)

\* line 48: the edge widget accepts 0 .. max_possible_edges
ChangeEdges ==
    \E e \in 0 .. max_possible_edges(num_vertices) :
        /\ e # num_edges
        /\ run_script(num_vertices, e, show_labels, color_by_degree)

\* line 49: picking another layout reruns the script.  The choice reaches
\* only the layout call of lines 72-79, whose positions are not modelled.
SelectLayout ==
    run_script(num_vertices, num_edges, show_labels, color_by_degree)

\* line 50
ToggleLabels ==
    run_script(num_vertices, num_edges, ~show_labels, color_by_degree)

\* line 51
ToggleColorByDegree ==
    run_script(num_vertices, num_edges, show_labels, ~color_by_degree)

\* lines 54, 116, 140: a button press reruns the script, nothing else changes
PressButton ==
    run_script(num_vertices, num_edges, show_labels, color_by_degree)

\* the first run of a session, the vertex widget at its default (capped by
\* the model's bound) and every other widget at its default
Init ==
    /\ num_vertices = Min(DefaultVertices, MaxN)
    /\ num_edges = default_edges(Min(DefaultVertices, MaxN))
    /\ show_labels = TRUE
    /\ color_by_degree = TRUE
    /\ outcome = "returned"
    /\ \E r \in create_random_graph(num_vertices, num_edges) :
            chosen_edges = r.chosen /\ G = r.graph

Next ==
    \/ ChangeVertices
    \/ ChangeEdges
    \/ SelectLayout
    \/ ToggleLabels
    \/ ToggleColorByDegree
    \/ PressButton

Spec == Init /\ [][Next]_vars

---------------------------------------------------------------------------
(* create_random_graph on its own *)

\* the arguments tried: a grid around the valid range, the upper end of the
\* vertex widget's range and the value above it with no edge or a negative
\* request, and the sidebar's defaults
GenInputs ==
    (((0 - MaxNeg) .. MaxN)
        \X ((0 - MaxNeg) .. (max_possible_edges(MaxN) + MaxOver)))
    \cup ({MaxVertices, MaxVertices + 1} \X ((0 - MaxNeg) .. 0))
    \cup {<<DefaultVertices, DefaultEdges>>}

InitGen ==
    /\ \E p \in GenInputs : num_vertices = p[1] /\ num_edges = p[2]
    /\ show_labels = TRUE
    /\ color_by_degree = TRUE
    /\ outcome = "pending"
    /\ chosen_edges = {}
    /\ G = nx_Graph

Generate ==
    /\ outcome = "pending"
    /\ call_create(num_vertices, num_edges)
    /\ UNCHANGED <<num_vertices, num_edges, show_labels, color_by_degree>>

NextGen == Generate

SpecGen == InitGen /\ [][NextGen]_vars

---------------------------------------------------------------------------
(* Properties of create_random_graph, checked under SpecGen *)

Abs(x) == IF x < 0 THEN 0 - x ELSE x

\* the unordered pairs of distinct nodes below n
UPairs(n) == {{e[1], e[2]} : e \in {f \in Range(n) \X Range(n) : f[1] < f[2]}}

\* the subsets of P with k elements
KSubsets(P, k) ==
    IF k = 0 THEN {{}} ELSE {S \in SUBSET P : Cardinality(S) = k}

\* the nodes joined to a node of S by a path of pairs of E
RECURSIVE Closure(_, _)
Closure(S, E) ==
    LET T == S \cup {e[2] : e \in {f \in E : f[1] \in S}}
               \cup {e[1] : e \in {f \in E : f[2] \in S}}
    IN  IF T = S THEN S ELSE Closure(T, E)

\* the connected components of nodes 0 .. n-1 under the pairs of E
ComponentsOf(n, E) == {Closure({v}, E) : v \in Range(n)}

\* C1: for a vertex count in 1 .. 200 and a requested edge count >= 0, also
\* one above n(n-1)/2, the call returns, and the graph's edge set has exactly
\* min(m, n(n-1)/2) edges, counted with or without multiplicity, each joining
\* two different nodes of 0 .. n-1.
C1_EdgeSetSizeAndRange ==
    (/\ outcome # "pending"
     /\ num_vertices \in 1 .. 200
     /\ num_edges >= 0)
    => /\ outcome = "returned"
       /\ Cardinality(EdgeSet(G))
            = Min(num_edges, (num_vertices * (num_vertices - 1)) \div 2)
       /\ metric_edges(G) = Cardinality(EdgeSet(G))
       /\ Cardinality(chosen_edges) = Cardinality(EdgeSet(G))
       /\ \A e \in EdgeSet(G) : Cardinality(e) = 2 /\ e \subseteq Range(num_vertices)

C1_Witness ==
    /\ outcome = "returned"
    /\ num_vertices >= 3
    /\ num_edges > (num_vertices * (num_vertices - 1)) \div 2
    /\ Cardinality(EdgeSet(G)) = (num_vertices * (num_vertices - 1)) \div 2

\* C5: the component count shown is the number of connected components of
\* the drawn pairs on nodes 0 .. n-1; with no edge it is n, and when the
\* request reaches n(n-1)/2 (the complete graph) it is 1.
C5_ComponentCount ==
    (outcome = "returned" /\ num_vertices >= 1)
    => /\ metric_components(G)
            = Cardinality(ComponentsOf(num_vertices, chosen_edges))
       /\ chosen_edges = {} => metric_components(G) = num_vertices
       /\ num_edges >= (num_vertices * (num_vertices - 1)) \div 2
            => metric_components(G) = 1

C5_Witness ==
    /\ outcome = "returned"
    /\ num_vertices >= 3
    /\ num_edges >= (num_vertices * (num_vertices - 1)) \div 2
    /\ metric_components(G) = 1
    /\ \A v \in Range(num_vertices) : Cardinality(G.adj[v]) = num_vertices - 1

\* C6 as stated: a call with a vertex count outside 1 .. 200 does not return
\* a graph.
C6_OutOfRangeRejected ==
    (outcome # "pending" /\ num_vertices \notin 1 .. 200)
    => outcome # "returned"

\* C6 amended: there is no range check.  With an edge count >= 0, a vertex
\* count <= 0 returns the empty graph, whose metrics are all 0, and a vertex
\* count above 200 returns a graph on all its nodes with min(m, n(n-1)/2)
\* edges.
C6_OutOfRangeReturns ==
    (/\ outcome # "pending"
     /\ num_vertices \notin 1 .. 200
     /\ num_edges >= 0)
    => /\ outcome = "returned"
       /\ num_vertices <= 0
            => /\ G = nx_Graph
               /\ chosen_edges = {}
               /\ metric_nodes(G) = 0
               /\ metric_edges(G) = 0
               /\ metric_avg_degree(G) = 0
               /\ metric_components(G) = 0
       /\ num_vertices > 200
            => /\ G.nodes = [i \in 1 .. num_vertices |-> i - 1]
               /\ Cardinality(EdgeSet(G))
                    = Min(num_edges, (num_vertices * (num_vertices - 1)) \div 2)

C6_Witness ==
    /\ outcome = "returned"
    /\ num_vertices <= 0
    /\ num_edges > 0
    /\ G = nx_Graph
    /\ metric_components(G) = 0

\* C7: for n >= 0 the node metric is n and the edge metric is the number of
\* drawn pairs; the average degree, in hundredths, is 0 for n = 0 and for
\* n >= 1 is within half a hundredth of 2e/n (6 nodes with 6 edges: 2.00,
\* one node: 0).
C7_SummaryMetrics ==
    (outcome = "returned" /\ num_vertices >= 0)
    => LET e == Cardinality(chosen_edges)
           h == metric_avg_degree(G)
       IN  /\ metric_nodes(G) = num_vertices
           /\ metric_edges(G) = e
           /\ num_vertices = 0 => h = 0
           /\ num_vertices >= 1
                => 2 * Abs(h * num_vertices - 200 * e) <= num_vertices
           /\ (num_vertices = 6 /\ num_edges = 6) => h = 200
           /\ num_vertices = 1 => h = 0

C7_Witness ==
    /\ outcome = "returned"
    /\ num_vertices = 3
    /\ Cardinality(chosen_edges) = 1
    /\ metric_avg_degree(G) = 67

\* C9: for n >= 0 and m >= 0, before the call, the edge sets the call can
\* return are exactly the subsets of the pairs {i, j}, i < j < n, with
\* min(m, n(n-1)/2) elements; after it, the returned edge set is one of them.
C9_EverySubsetAndNoOther ==
    LET k == Min(num_edges, (num_vertices * (num_vertices - 1)) \div 2)
    IN  /\ (outcome = "pending" /\ num_vertices >= 0 /\ num_edges >= 0)
            => {EdgeSet(r.graph) : r \in create_random_graph(num_vertices, num_edges)}
                 = KSubsets(UPairs(num_vertices), k)
        /\ (outcome = "returned" /\ num_vertices >= 0)
            => /\ EdgeSet(G) \subseteq UPairs(num_vertices)
               /\ Cardinality(EdgeSet(G)) = k

C9_Witness ==
    /\ outcome = "returned"
    /\ num_vertices = 4
    /\ num_edges = 2
    /\ EdgeSet(G) = {{0, 3}, {1, 2}}

---------------------------------------------------------------------------
(* Properties of the session, checked under Spec *)

\* whether node v lies on one of the drawn pairs
Touched(v) == \E e \in chosen_edges : e[1] = v \/ e[2] = v

\* C2 as stated: a run with the same vertex and edge counts as the run
\* before it returns the same edge set.
C2_SameArgumentsSameEdges ==
    [][(num_vertices' = num_vertices /\ num_edges' = num_edges)
        => EdgeSet(G') = EdgeSet(G)]_vars

\* C2 amended: the function takes no seed and the sample comes from the
\* process-wide generator, so only the node list and the number of edges
\* are the same in two runs with the same vertex and edge counts.
C2_SameArgumentsSameShape ==
    [][(num_vertices' = num_vertices /\ num_edges' = num_edges)
        => /\ G'.nodes = G.nodes
           /\ Cardinality(EdgeSet(G')) = Cardinality(EdgeSet(G))]_vars

\* a state from which a button press, which changes no argument, can return
\* another edge set
C2_Witness ==
    /\ outcome = "returned"
    /\ ENABLED (PressButton /\ EdgeSet(G') # EdgeSet(G))

\* C3: the adjacency table has one row and one column per node number
\* 0 .. n-1, holds only 0 and 1, holds 1 at (i, j) exactly when (i, j) or
\* (j, i) was drawn, is symmetric with a zero diagonal, and its entries sum
\* to twice the number of edges.
C3_AdjacencyMatrix ==
    outcome = "returned"
    => LET n  == num_vertices
           df == adj_df(G, n)
           A  == df.values
           flat == [k \in 1 .. n * n |-> A[(k - 1) \div n][(k - 1) % n]]
       IN  /\ DOMAIN A = Range(n)
           /\ DOMAIN df.index = Range(n)
           /\ DOMAIN df.columns = Range(n)
           /\ \A i \in Range(n) :
                /\ DOMAIN A[i] = Range(n)
                /\ G.nodes[i + 1] = i
                /\ df.index[i] = Digits(i)
                /\ df.columns[i] = Digits(i)
                /\ A[i][i] = 0
                /\ \A j \in Range(n) :
                     /\ A[i][j] \in {0, 1}
                     /\ A[i][j] = A[j][i]
                     /\ A[i][j] = 1
                          <=> (<<i, j>> \in chosen_edges \/ <<j, i>> \in chosen_edges)
           /\ SumSeq(flat, 1, n * n) = 2 * Cardinality(chosen_edges)
           /\ SumSeq(flat, 1, n * n) = 2 * metric_edges(G)

C3_Witness ==
    /\ outcome = "returned"
    /\ num_vertices >= 3
    /\ to_numpy_array(G)[0][2] = 1
    /\ to_numpy_array(G)[2][0] = 1
    /\ to_numpy_array(G)[0][1] = 0

\* C4: each node's degree is the number of drawn pairs it lies on, and the
\* Degree column of the degree table sums to twice the number of edges.
C4_Handshake ==
    outcome = "returned"
    => LET df == degree_df(G)
           total == SumSeq([i \in 1 .. Len(df) |-> df[i].Degree], 1, Len(df))
       IN  /\ \A v \in Range(num_vertices) :
                /\ v \in DOMAIN degrees(G)
                /\ degrees(G)[v]
                     = Cardinality({e \in chosen_edges : e[1] = v \/ e[2] = v})
           /\ total = 2 * Cardinality(chosen_edges)
           /\ total = 2 * metric_edges(G)

C4_Witness ==
    /\ outcome = "returned"
    /\ Cardinality(chosen_edges) = 3
    /\ \E v \in Range(num_vertices) : degrees(G)[v] = 3

\* C8: the graph holds the nodes 0 .. n-1 whatever was drawn, and the degree
\* table has n rows, one per node label, a node on no drawn pair with
\* degree 0.
C8_AllNodesPresent ==
    outcome = "returned"
    => LET df == degree_df(G)
       IN  /\ G.nodes = [i \in 1 .. num_vertices |-> i - 1]
           /\ Len(df) = num_vertices
           /\ {df[i].Node : i \in 1 .. Len(df)}
                = {Label(v) : v \in Range(num_vertices)}
           /\ \A v \in Range(num_vertices) :
                ~Touched(v)
                  => \E i \in 1 .. Len(df) :
                        df[i].Node = Label(v) /\ df[i].Degree = 0

C8_Witness ==
    /\ outcome = "returned"
    /\ chosen_edges # {}
    /\ \E v \in Range(num_vertices) :
          /\ ~Touched(v)
          /\ \E i \in 1 .. Len(degree_df(G)) :
                degree_df(G)[i].Node = Label(v) /\ degree_df(G)[i].Degree = 0

\* the arguments of the last call are within the widgets' ranges
ArgsInRange ==
    /\ outcome = "returned"
    /\ num_vertices \in 1 .. 200
    /\ num_edges \in 0 .. ((num_vertices * (num_vertices - 1)) \div 2)

\* C10: in the first run and after every interaction, the call got
\* 1 <= n <= 200 and 0 <= m <= n(n-1)/2, the bound taken from the vertex
\* count of that run; a run that changes the vertex count passes
\* min(6, n(n-1)/2) edges.
C10_SidebarArguments ==
    /\ ArgsInRange
    /\ [][/\ ArgsInRange'
          /\ num_vertices' # num_vertices
               => num_edges' = Min(6, (num_vertices' * (num_vertices' - 1)) \div 2)]_vars

C10_Witness ==
    /\ outcome = "returned"
    /\ num_vertices = 3
    /\ num_edges = 3
    /\ ~show_labels
    /\ ~color_by_degree

=============================================================================
